---- MODULE Spec2Model ----
(***************************************************************************)
(* Karakeep integration for Home Assistant: the config flow (setup and     *)
(* reconfigure), the polling coordinator's update method and the health    *)
(* binary sensor.                                                          *)
(*                                                                         *)
(* Text is modelled as sequences of one-character strings, so that         *)
(* strip(), rstrip("/"), lower() and urlparse() are computed, not assumed. *)
(***************************************************************************)
EXTENDS Integers, Sequences, FiniteSets, TLC

VARIABLES
    entries,              \* hass config entries of the domain, in creation order
    req,                  \* the flow step last invoked: step_id and user_input
    prev_entries,         \* the config entries as they were when that step began
    probe,                \* the client calls issued by that step (url, token)
    result,               \* what that step returned (or the exception it raised)
    data,                 \* coordinator.data: the published snapshot, or None
    last_update_success,  \* coordinator.last_update_success
    calls,                \* the client fetches issued by the last polling tick
    cause,                \* the __cause__ of the last tick's UpdateFailed, or None
    tick,                 \* the responses the last polling tick received
    good,                 \* the responses of the last tick whose fetches both succeeded
    is_on_out,            \* what KarakeepHealthSensor.is_on last returned
    client,               \* a KarakeepClient: its token, and what the transport will answer
    fetched               \* what the client's last async_get_stats did

vars == <<entries, req, prev_entries, probe, result, data, last_update_success,
          calls, cause, tick, good, is_on_out, client, fetched>>

flowVars == <<entries, req, prev_entries, probe, result>>
pollVars == <<data, last_update_success, calls, cause, tick, good>>
clientVars == <<client, fetched>>

None == "None"

-----------------------------------------------------------------------------
(* Bounds *)

MaxEntries == 2     \* config entries the setup step may create
MaxCount == 1       \* largest statistic value a stats response carries
MaxTokenLen == 12   \* longest token a client is built with

-----------------------------------------------------------------------------
(* Text helpers: Python str methods over sequences of characters *)

Whitespace == {" "}

RECURSIVE LStrip(_)
LStrip(s) == IF s # <<>> /\ Head(s) \in Whitespace THEN LStrip(Tail(s)) ELSE s

RECURSIVE RStrip(_)
RStrip(s) ==
    IF s # <<>> /\ s[Len(s)] \in Whitespace
    THEN RStrip(SubSeq(s, 1, Len(s) - 1))
    ELSE s

\* str.strip()
Strip(s) == RStrip(LStrip(s))

\* str.rstrip("/"): every trailing slash goes
RECURSIVE RStripSlash(_)
RStripSlash(s) ==
    IF s # <<>> /\ s[Len(s)] = "/"
    THEN RStripSlash(SubSeq(s, 1, Len(s) - 1))
    ELSE s

UpperLetters == {"H", "T", "P", "S", "O", "K"}

LowerChar(c) ==
    CASE c = "H" -> "h"
      [] c = "T" -> "t"
      [] c = "P" -> "p"
      [] c = "S" -> "s"
      [] c = "O" -> "o"
      [] c = "K" -> "k"
      [] OTHER -> c

\* str.lower()
Lower(s) == [i \in 1..Len(s) |-> LowerChar(s[i])]

\* str.find(c) as a 1-based index, 0 when absent
Find(s, cs) ==
    IF \E i \in 1..Len(s) : s[i] \in cs
    THEN CHOOSE i \in 1..Len(s) : s[i] \in cs /\ \A j \in 1..(i - 1) : s[j] \notin cs
    ELSE 0

Letters == {"a", "b", "f", "h", "p", "s", "t", "o", "k"} \cup UpperLetters
Digits == {"8"}
SchemeChars == Letters \cup Digits \cup {"+", "-", "."}

-----------------------------------------------------------------------------
(* urllib.parse.urlparse, as far as the config flow reads its result *)

\* the scheme is the text before the first ":" when it starts with a letter
\* and holds only scheme characters; urlparse lower-cases it
SplitScheme(url) ==
    LET i == Find(url, {":"})
    IN  IF i > 1 /\ url[1] \in Letters /\ \A j \in 1..(i - 1) : url[j] \in SchemeChars
        THEN [scheme |-> Lower(SubSeq(url, 1, i - 1)), rest |-> SubSeq(url, i + 1, Len(url))]
        ELSE [scheme |-> <<>>, rest |-> url]

\* the netloc is what follows "//" up to the next "/", "?" or "#"
SplitNetloc(rest) ==
    IF Len(rest) >= 2 /\ rest[1] = "/" /\ rest[2] = "/"
    THEN LET after == SubSeq(rest, 3, Len(rest))
             d == Find(after, {"/", "?", "#"})
         IN  IF d = 0 THEN after ELSE SubSeq(after, 1, d - 1)
    ELSE <<>>

Has(s, c) == \E i \in 1..Len(s) : s[i] = c

\* urlparse raises ValueError("Invalid IPv6 URL") on an unbalanced bracket
urlparse(url) ==
    LET sp == SplitScheme(url)
        netloc == SplitNetloc(sp.rest)
    IN  IF Has(netloc, "[") # Has(netloc, "]")
        THEN [raises |-> TRUE, scheme |-> sp.scheme, netloc |-> netloc]
        ELSE [raises |-> FALSE, scheme |-> sp.scheme, netloc |-> netloc]

\* ParseResult.hostname: the netloc without userinfo and port (None when empty)
Hostname(netloc) ==
    LET a == Find(netloc, {"@"})
        hp == IF a = 0 THEN netloc ELSE SubSeq(netloc, a + 1, Len(netloc))
        c == Find(hp, {":"})
    IN  IF c = 0 THEN hp ELSE SubSeq(hp, 1, c - 1)

http == <<"h", "t", "t", "p">>
https == <<"h", "t", "t", "p", "s">>

\* the raw URLs a user may type into the form
UrlA == https \o <<":", "/", "/", "a">>
UrlASlash == UrlA \o <<"/">>
UrlASlashes == UrlA \o <<"/", "/">>
UrlAPadded == <<" ">> \o UrlA \o <<"/", " ">>
UrlB == https \o <<":", "/", "/", "b">>
UrlUpper == <<"H", "T", "T", "P", ":", "/", "/", "a">>
UrlFtp == <<"f", "t", "p", ":", "/", "/", "a">>
UrlNoHost == https \o <<":", "/", "/">>
UrlPortOnly == http \o <<":", "/", "/", ":", "8">>
UrlBracket == http \o <<":", "/", "/", "[", "a">>
UrlBare == <<"a">>
UrlEmpty == <<>>

RawUrls == {UrlA, UrlASlash, UrlASlashes, UrlAPadded, UrlB, UrlUpper, UrlFtp,
            UrlNoHost, UrlPortOnly, UrlBracket, UrlBare, UrlEmpty}

Tokens == {<<"t">>, <<" ", "u">>}

\* A scan interval as submitted: an integer, a number with a fraction (whole
\* is its integer part) or text (numeric text spells the integer whole)
IntValue(n) == [kind |-> "int", whole |-> n, numeric |-> TRUE]
FloatValue(n) == [kind |-> "float", whole |-> n, numeric |-> TRUE]
TextValue(n) == [kind |-> "text", whole |-> n, numeric |-> TRUE]
Gibberish == [kind |-> "text", whole |-> 0, numeric |-> FALSE]

MIN_SCAN_INTERVAL == 30

\* as SchemaAccepts, without vol.Range(min=30)
SchemaAcceptsPositive(value) == value.numeric /\ value.whole >= 0

\* vol.All(cv.positive_int, vol.Range(min=30)): cv.positive_int is
\* vol.Coerce(int) followed by vol.Range(min=0)
SchemaAccepts(value) ==
    /\ value.numeric
    /\ value.whole >= 0
    /\ value.whole >= MIN_SCAN_INTERVAL

\* what the schema hands to the step: int(value)
Coerced(value) == value.whole

\* the intervals of the flow's runs of several steps, and of single steps
Intervals == {IntValue(MIN_SCAN_INTERVAL), IntValue(60)}
RawIntervals == Intervals \cup {IntValue(0 - 5), IntValue(0), IntValue(29), FloatValue(29),
                                FloatValue(30), TextValue(45), Gibberish}

DEFAULT_SCAN_INTERVAL == 60

-----------------------------------------------------------------------------
(* Exception classes: aiohttp's, and the builtins they derive from *)

Parents(c) ==
    CASE c = "BaseException" -> {}
      [] c = "Exception" -> {"BaseException"}
      [] c = "ValueError" -> {"Exception"}
      [] c = "TypeError" -> {"Exception"}
      [] c = "RuntimeError" -> {"Exception"}
      [] c = "OSError" -> {"Exception"}
      [] c = "TimeoutError" -> {"OSError"}
      [] c = "JSONDecodeError" -> {"ValueError"}
      [] c = "ClientError" -> {"Exception"}
      [] c = "ClientResponseError" -> {"ClientError"}
      [] c = "ContentTypeError" -> {"ClientResponseError"}
      [] c = "ClientConnectionError" -> {"ClientError"}
      [] c = "ClientOSError" -> {"ClientConnectionError", "OSError"}
      [] c = "ClientConnectorError" -> {"ClientOSError"}
      [] c = "ClientConnectorDNSError" -> {"ClientConnectorError"}
      [] c = "ClientSSLError" -> {"ClientConnectorError"}
      [] c = "ClientConnectorCertificateError" -> {"ClientSSLError", "ValueError"}
      [] c = "ServerConnectionError" -> {"ClientConnectionError"}
      [] c = "ServerTimeoutError" -> {"ServerConnectionError", "TimeoutError"}
      [] c = "ClientPayloadError" -> {"ClientError"}
      [] c = "InvalidURL" -> {"ClientError", "ValueError"}
      \* aiohttp.ClientTimeout is the timeout settings class, not an exception
      [] c = "ClientTimeout" -> {}

RECURSIVE Ancestors(_)
Ancestors(c) == {c} \cup UNION {Ancestors(p) : p \in Parents(c)}

IsSubclass(c, base) == base \in Ancestors(c)

\* an exception in flight
Exc(cls, status) == [kind |-> "raise", cls |-> cls, status |-> status, body |-> <<>>]
Ret(body) == [kind |-> "return", cls |-> None, status |-> 0, body |-> body]

HttpStatuses == {401, 403, 404, 500}

\* what one GET of the client can end in: the JSON body is returned, or
\* raise_for_status(), the transport or resp.json() raises
HttpFailures == {Exc("ClientResponseError", st) : st \in HttpStatuses}
ConnectFailures == {Exc(c, 0) : c \in {"ClientConnectorError", "ClientConnectorDNSError",
                                        "ClientConnectorCertificateError"}}
BodyFailures == {Exc("ContentTypeError", 200), Exc("JSONDecodeError", 0)}
TimeoutFailures == {Exc("ServerTimeoutError", 0), Exc("TimeoutError", 0)}
UrlFailures == {Exc("InvalidURL", 0)}
OtherFailures == {Exc("ClientPayloadError", 0), Exc("RuntimeError", 0)}

Failures == HttpFailures \cup ConnectFailures \cup BodyFailures \cup TimeoutFailures
                \cup UrlFailures \cup OtherFailures

\* A try statement's except clauses, tried in order.  A clause whose class does
\* not inherit from BaseException makes the match itself raise TypeError.
\* The result is the index of the clause that handles e, 0 when none does,
\* and -1 when matching raised TypeError.
RECURSIVE MatchFrom(_, _, _)
MatchFrom(clauses, e, i) ==
    IF i > Len(clauses) THEN 0
    ELSE IF ~IsSubclass(clauses[i], "BaseException") THEN -1
    ELSE IF IsSubclass(e.cls, clauses[i]) THEN i
    ELSE MatchFrom(clauses, e, i + 1)

Match(clauses, e) == MatchFrom(clauses, e, 1)

\* the except clauses of KarakeepClient.async_get_stats, in source order
ClientClauses == <<"ClientResponseError", "ClientConnectorError", "ContentTypeError",
                   "ServerTimeoutError", "ClientError", "Exception">>

\* KarakeepClient.async_get_stats: one GET; the body is returned, or the
\* clause that catches the failure logs it and re-raises it with a bare raise
async_get_stats(outcome) ==
    IF outcome.kind = "return" THEN outcome
    ELSE IF Match(ClientClauses, outcome) = -1 THEN Exc("TypeError", 0)
    ELSE outcome

-----------------------------------------------------------------------------
(* The JSON objects the two endpoints answer with *)

\* the keys of sensor.STATS
StatKeys == {"numBookmarks", "numFavorites", "numArchived", "numHighlights",
             "numLists", "numTags"}

StatsOf(n, m) == [k \in StatKeys |-> IF k = "numBookmarks" THEN n ELSE m]

\* a stats object may carry keys the integration has no sensor for, or none at all
StatsObjects ==
    {StatsOf(n, m) : n, m \in 0..MaxCount}
        \cup {[k \in StatKeys \cup {"numAssets"} |-> MaxCount], [k \in {} |-> 0]}

ok == <<"o", "k">>
StatusTexts == {ok, <<"O", "K">>, <<"O", "k">>, <<"o", "K">>, <<"e", "r", "r", "o", "r">>,
                <<"u", "n", "k", "n", "o", "w", "n">>, <<>>}
StatusCodes == {0, 200, 404, 503}

\* a health object: either field may be missing
HealthObjects ==
    [status_code : StatusCodes, status : StatusTexts]
        \cup [status_code : StatusCodes]
        \cup [status : StatusTexts]
        \cup {[k \in {} |-> 0]}

-----------------------------------------------------------------------------
(* The config flow: KarakeepConfigFlow *)

\* the except clauses around the probe, in source order
ProbeClauses == <<"ClientConnectorError", "ClientResponseError", "ClientTimeout",
                  "ClientError", "InvalidURL", "Exception">>

\* as StatusErrorCode, with the two status codes exchanged
StatusErrorCodeSwapped(status) ==
    IF status = 404 THEN "invalid_auth"
    ELSE IF status = 401 THEN "invalid_api_path"
    ELSE "api_error"

\* the error code of the ClientResponseError clause
StatusErrorCode(status) ==
    IF status = 401 THEN "invalid_auth"
    ELSE IF status = 404 THEN "invalid_api_path"
    ELSE "api_error"

\* errors["base"] as set by clause i for exception e
ClauseErrorCode(i, e) ==
    CASE i = 1 -> "cannot_connect"
      [] i = 2 -> StatusErrorCode(e.status)
      [] i = 3 -> "timeout_error"
      [] i = 4 -> "client_error"
      [] i = 5 -> "invalid_url"
      [] i = 6 -> "unknown"

\* parsed.scheme not in ("http", "https") or not parsed.netloc
UrlFormatBad(parsed) == parsed.scheme \notin {http, https} \/ parsed.netloc = <<>>

\* as Normalize, but one trailing slash is removed at most
NormalizeOnce(url) ==
    IF url # <<>> /\ url[Len(url)] = "/" THEN SubSeq(url, 1, Len(url) - 1) ELSE url

\* url.rstrip("/") in the step, and base_url.rstrip("/") in KarakeepClient.__init__
Normalize(url) == RStripSlash(url)
ClientUrl(base_url) == RStripSlash(base_url)

\* as HasDuplicate, but the URLs are compared only when creating
HasDuplicateOnCreate(es, existing, normalized_url) ==
    \E i \in 1..Len(es) : existing = 0 /\ es[i].data.url = normalized_url

\* the duplicate loop over _async_current_entries(); existing is the index of
\* the entry being reconfigured, 0 for none
HasDuplicate(es, existing, normalized_url) ==
    \E i \in 1..Len(es) :
        /\ (existing = 0 \/ es[i].entry_id # es[existing].entry_id)
        /\ es[i].data.url = normalized_url

NoOptions == [k \in {} |-> 0]

\* {**existing_entry.options, CONF_SCAN_INTERVAL: scan_interval}
MergeOptions(options, scan_interval) ==
    [k \in DOMAIN options \cup {"scan_interval"} |->
        IF k = "scan_interval" THEN scan_interval ELSE options[k]]

\* as UpdateEntry, but the entry's options are left as they were
UpdateEntryKeepingOptions(es, existing, d, options) ==
    [es EXCEPT ![existing] = [entry_id |-> es[existing].entry_id,
                              data |-> d, options |-> es[existing].options]]

\* hass.config_entries.async_update_entry(existing_entry, data=, options=)
UpdateEntry(es, existing, d, options) ==
    [es EXCEPT ![existing] = [entry_id |-> es[existing].entry_id,
                              data |-> d, options |-> options]]

\* async_create_entry(title="Karakeep", data=data): a new entry with no options
CreateEntry(es, d) ==
    Append(es, [entry_id |-> Len(es) + 1, data |-> d, options |-> NoOptions])

\* the defaults of the form's schema
FormDefaults(es, existing) ==
    IF existing # 0
    THEN [url |-> es[existing].data.url,
          token |-> es[existing].data.token,
          scan_interval |->
              IF "scan_interval" \in DOMAIN es[existing].options
              THEN es[existing].options["scan_interval"]
              ELSE es[existing].data.scan_interval]
    ELSE [url |-> <<>>, token |-> <<>>, scan_interval |-> DEFAULT_SCAN_INTERVAL]

ShowForm(step_id, es, existing, error) ==
    [type |-> "form", step_id |-> step_id, error |-> error,
     defaults |-> FormDefaults(es, existing)]

Abort(reason) == [type |-> "abort", reason |-> reason]
Raised(e) == [type |-> "raise", cls |-> e.cls]
Created(d) == [type |-> "create_entry", data |-> d]

Outcome(es, pr, res) == [entries |-> es, probe |-> pr, result |-> res]

\* as AfterProbe, but the entry is written before the duplicate check
AfterProbeWriteFirst(step_id, es, existing, d, pr) ==
    LET written == IF step_id = "reconfigure" /\ existing # 0
                   THEN UpdateEntry(es, existing, d,
                                    MergeOptions(es[existing].options, d.scan_interval))
                   ELSE CreateEntry(es, d)
    IN  IF HasDuplicate(es, existing, d.url)
        THEN Outcome(written, pr, Abort("already_configured"))
        ELSE IF step_id = "reconfigure" /\ existing # 0
        THEN Outcome(written, pr, Abort("reconfigure_successful"))
        ELSE Outcome(written, pr, Created(d))

\* the probe succeeded: duplicate check, then update or create
AfterProbe(step_id, es, existing, d, pr) ==
    IF HasDuplicate(es, existing, d.url)
    THEN Outcome(es, pr, Abort("already_configured"))
    ELSE IF step_id = "reconfigure" /\ existing # 0
    THEN Outcome(UpdateEntry(es, existing, d, MergeOptions(es[existing].options,
                                                           d.scan_interval)),
                 pr, Abort("reconfigure_successful"))
    ELSE Outcome(CreateEntry(es, d), pr, Created(d))

\* the outer try: except ValueError -> invalid_url_format; anything else leaves the step
OuterHandle(step_id, es, existing, pr, e) ==
    IF IsSubclass(e.cls, "ValueError")
    THEN Outcome(es, pr, ShowForm(step_id, es, existing, "invalid_url_format"))
    ELSE Outcome(es, pr, Raised(e))

\* the probe raised e: the inner try's except clauses
ProbeFailed(step_id, es, existing, pr, e) ==
    LET i == Match(ProbeClauses, e)
    IN  IF i = -1 THEN OuterHandle(step_id, es, existing, pr, Exc("TypeError", 0))
        ELSE IF i = 0 THEN OuterHandle(step_id, es, existing, pr, e)
        ELSE Outcome(es, pr, ShowForm(step_id, es, existing, ClauseErrorCode(i, e)))

\* _async_handle_config_step(step_id, user_input, existing_entry); outcome is
\* what the transport answers should the step probe
HandleConfigStep(step_id, user_input, es, existing, outcome) ==
    IF ~user_input.given
    THEN Outcome(es, <<>>, ShowForm(step_id, es, existing, None))
    ELSE
        LET url == Strip(user_input.url)
            token == Strip(user_input.token)
            parsed == urlparse(url)
            normalized_url == Normalize(url)
            d == [url |-> normalized_url, token |-> token,
                  scan_interval |-> user_input.scan_interval]
            got == async_get_stats(outcome)
            pr == <<[url |-> ClientUrl(normalized_url), token |-> token, outcome |-> got]>>
        IN  IF parsed.raises
            THEN OuterHandle(step_id, es, existing, <<>>, Exc("ValueError", 0))
            ELSE IF UrlFormatBad(parsed)
            THEN Outcome(es, <<>>, ShowForm(step_id, es, existing, "invalid_url_format"))
            ELSE IF got.kind = "return"
            THEN AfterProbe(step_id, es, existing, d, pr)
            ELSE ProbeFailed(step_id, es, existing, pr, got)

\* async_step_user
StepUser(user_input, es, outcome) == HandleConfigStep("user", user_input, es, 0, outcome)

\* async_step_reconfigure: aborts when there is no entry, else reconfigures the first
StepReconfigure(user_input, es, outcome) ==
    IF Len(es) = 0
    THEN Outcome(es, <<>>, Abort("no_existing_config"))
    ELSE HandleConfigStep("reconfigure", user_input, es, 1, outcome)

\* user_input is None when the form is first opened
NoInput == [given |-> FALSE]

InputsOver(urls, intervals) ==
    {NoInput} \cup [given : {TRUE}, url : urls, token : Tokens, scan_interval : intervals]

\* the schema of the form shown applied to a submission: the step sees the
\* coerced interval
Validated(user_input) ==
    IF user_input.given
    THEN [user_input EXCEPT !.scan_interval = Coerced(user_input.scan_interval)]
    ELSE user_input

InvalidData == [type |-> "invalid_data"]

\* a submission the schema rejects never reaches the step
\* (a reconfigure without entries aborts before any form is shown)
Submit(step_id, user_input, es, outcome) ==
    IF step_id = "reconfigure" /\ Len(es) = 0
    THEN StepReconfigure(user_input, es, outcome)
    ELSE IF user_input.given /\ ~SchemaAccepts(user_input.scan_interval)
    THEN Outcome(es, <<>>, InvalidData)
    ELSE IF step_id = "user"
    THEN StepUser(Validated(user_input), es, outcome)
    ELSE StepReconfigure(Validated(user_input), es, outcome)

\* what the transport may answer to the probe
Outcomes == {Ret(StatsOf(0, 0))} \cup Failures

\* a GET to a URL that names no host cannot be answered: the transport
\* rejects the URL or fails to connect
AnswersTo(user_input, outcomes) ==
    IF user_input.given /\ Hostname(urlparse(Strip(user_input.url)).netloc) = <<>>
    THEN outcomes \cap (UrlFailures \cup ConnectFailures)
    ELSE outcomes

\* the inputs and answers of the flow's runs of several steps
FlowUrls == {UrlA, UrlAPadded, UrlB, UrlFtp}
FlowOutcomes == {Ret(StatsOf(0, 0)), Exc("ClientResponseError", 401)}

Request(step_id, user_input) == [step_id |-> step_id, user_input |-> user_input]

InitFlow ==
    /\ entries = <<>>
    /\ req = Request(None, NoInput)
    /\ prev_entries = <<>>
    /\ probe = <<>>
    /\ result = [type |-> None]

Apply(step_id, user_input, out) ==
    /\ Len(out.entries) <= MaxEntries
    /\ req' = Request(step_id, user_input)
    /\ prev_entries' = entries
    /\ entries' = out.entries
    /\ probe' = out.probe
    /\ result' = out.result
    /\ UNCHANGED <<pollVars, is_on_out, clientVars>>

AsyncStepUser ==
    \E user_input \in InputsOver(FlowUrls, Intervals) :
      \E outcome \in AnswersTo(user_input, FlowOutcomes) :
        \E out \in {Submit("user", user_input, entries, outcome)} :
            Apply("user", user_input, out)

AsyncStepReconfigure ==
    \E user_input \in InputsOver(FlowUrls, Intervals) :
      \E outcome \in AnswersTo(user_input, FlowOutcomes) :
        \E out \in {Submit("reconfigure", user_input, entries, outcome)} :
            Apply("reconfigure", user_input, out)

\* KarakeepOptionsFlow.async_step_init on entry i: the submission becomes the
\* entry's options
OptionsInit(es, i, value) ==
    IF ~SchemaAccepts(value)
    THEN Outcome(es, <<>>, InvalidData)
    ELSE Outcome([es EXCEPT ![i].options = [scan_interval |-> Coerced(value)]], <<>>,
                 [type |-> "create_entry", data |-> [scan_interval |-> Coerced(value)]])

\* One step from each of a few entry lists, over every raw URL and every
\* answer of the transport
EntryA == [url |-> UrlA, token |-> <<"t">>, scan_interval |-> 30]
EntryB == [url |-> UrlB, token |-> <<"u">>, scan_interval |-> 60]
StartEntries == {<<>>, CreateEntry(<<>>, EntryA), CreateEntry(CreateEntry(<<>>, EntryA), EntryB)}

InitStep ==
    /\ entries \in StartEntries
    /\ req = Request(None, NoInput)
    /\ prev_entries = entries
    /\ probe = <<>>
    /\ result = [type |-> None]

\* the options flow, once, before the step
OneOptionsInit ==
    /\ result.type = None
    /\ \E i \in 1..Len(entries), value \in RawIntervals :
         \E out \in {OptionsInit(entries, i, value)} :
           /\ req' = Request("init", [given |-> TRUE, entry |-> i, scan_interval |-> value])
           /\ prev_entries' = entries
           /\ entries' = out.entries
           /\ probe' = out.probe
           /\ result' = out.result
           /\ UNCHANGED <<pollVars, is_on_out, clientVars>>

OneStepUser ==
    /\ req.step_id \in {None, "init"}
    /\ \E user_input \in InputsOver(RawUrls, RawIntervals) :
         \E outcome \in AnswersTo(user_input, Outcomes) :
           \E out \in {Submit("user", user_input, entries, outcome)} :
               Apply("user", user_input, out)

OneStepReconfigure ==
    /\ req.step_id \in {None, "init"}
    /\ \E user_input \in InputsOver(RawUrls, RawIntervals) :
         \E outcome \in AnswersTo(user_input, Outcomes) :
           \E out \in {Submit("reconfigure", user_input, entries, outcome)} :
               Apply("reconfigure", user_input, out)

-----------------------------------------------------------------------------
(* Polling: async_update_data under the DataUpdateCoordinator *)

\* KarakeepClient.async_get_health: one GET of the health endpoint; the health
\* object is returned, or the failure is raised to the caller
async_get_health(outcome) == outcome

\* data[key] = value on a dict
SetItemReplacing(dict, key, value) == [k \in {key} |-> value]

SetItem(dict, key, value) ==
    [k \in DOMAIN dict \cup {key} |-> IF k = key THEN value ELSE dict[k]]

\* as async_update_data, but a failed health fetch is swallowed and the stats
\* are returned alone
async_update_data_partial(statsOutcome, healthOutcome) ==
    LET s == async_get_stats(statsOutcome)
        h == async_get_health(healthOutcome)
    IN  IF s.kind = "raise"
        THEN [kind |-> "raise", cls |-> "UpdateFailed", cause |-> <<s>>,
              value |-> <<>>, calls |-> <<"async_get_stats">>]
        ELSE IF h.kind = "raise"
        THEN [kind |-> "return", cls |-> None, cause |-> <<>>,
              value |-> <<s.body>>,
              calls |-> <<"async_get_stats", "async_get_health">>]
        ELSE [kind |-> "return", cls |-> None, cause |-> <<>>,
              value |-> <<SetItem(s.body, "health", h.body)>>,
              calls |-> <<"async_get_stats", "async_get_health">>]

\* as async_update_data, but both fetches are issued before either is awaited
async_update_data_gathered(statsOutcome, healthOutcome) ==
    LET s == async_get_stats(statsOutcome)
        h == async_get_health(healthOutcome)
    IN  IF s.kind = "raise"
        THEN [kind |-> "raise", cls |-> "UpdateFailed", cause |-> <<s>>,
              value |-> <<>>, calls |-> <<"async_get_stats", "async_get_health">>]
        ELSE IF h.kind = "raise"
        THEN [kind |-> "raise", cls |-> "UpdateFailed", cause |-> <<h>>,
              value |-> <<>>, calls |-> <<"async_get_stats", "async_get_health">>]
        ELSE [kind |-> "return", cls |-> None, cause |-> <<>>,
              value |-> <<SetItem(s.body, "health", h.body)>>,
              calls |-> <<"async_get_stats", "async_get_health">>]

\* async_update_data: stats, then health, merged; any exception becomes
\* UpdateFailed(err) raised from err
async_update_data(statsOutcome, healthOutcome) ==
    LET s == async_get_stats(statsOutcome)
        h == async_get_health(healthOutcome)
    IN  IF s.kind = "raise"
        THEN [kind |-> "raise", cls |-> "UpdateFailed", cause |-> <<s>>,
              value |-> <<>>, calls |-> <<"async_get_stats">>]
        ELSE IF h.kind = "raise"
        THEN [kind |-> "raise", cls |-> "UpdateFailed", cause |-> <<h>>,
              value |-> <<>>, calls |-> <<"async_get_stats", "async_get_health">>]
        ELSE [kind |-> "return", cls |-> None, cause |-> <<>>,
              value |-> <<SetItem(s.body, "health", h.body)>>,
              calls |-> <<"async_get_stats", "async_get_health">>]

\* the coordinator publishes what the update method returns
Publish(old, upd) == IF upd.kind = "return" THEN upd.value ELSE old

\* the answers the two endpoints give to a polling tick
PollFailures == {Exc("ClientResponseError", 401), Exc("ClientConnectorError", 0),
                 Exc("TimeoutError", 0)}
PollHealthObjects == {[status_code |-> 200, status |-> ok],
                      [status_code |-> 503, status |-> <<"e", "r", "r", "o", "r">>],
                      [status_code |-> 200]}
StatsOutcomes == {Ret(b) : b \in StatsObjects} \cup PollFailures
HealthOutcomes == {Ret(b) : b \in PollHealthObjects} \cup PollFailures

InitPoll ==
    /\ data = <<>>
    /\ last_update_success = TRUE
    /\ calls = <<>>
    /\ cause = <<>>
    /\ tick = <<>>
    /\ good = <<>>

\* one polling tick of the coordinator
Tick ==
    \E so \in StatsOutcomes, ho \in HealthOutcomes :
        LET upd == async_update_data(so, ho)
        IN  /\ data' = Publish(data, upd)
            /\ last_update_success' = (upd.kind = "return")
            /\ calls' = upd.calls
            /\ cause' = upd.cause
            /\ tick' = <<[stats |-> so, health |-> ho]>>
            /\ good' = IF so.kind = "return" /\ ho.kind = "return"
                       THEN <<[stats |-> so.body, health |-> ho.body]>>
                       ELSE good
            /\ UNCHANGED <<flowVars, is_on_out, clientVars>>

-----------------------------------------------------------------------------
(* The health binary sensor: KarakeepHealthSensor *)

Get(dict, key, default) == IF key \in DOMAIN dict THEN dict[key] ELSE default

\* as is_on, but the status text is compared as it came
is_on_case_sensitive(coordinator_data) ==
    LET health_data == Get(coordinator_data, "health", [k \in {} |-> 0])
        status_code == Get(health_data, "status_code", 0)
        status == Get(health_data, "status", <<"u", "n", "k", "n", "o", "w", "n">>)
    IN  status_code # 200 \/ status # ok

\* is_on: True when the health check indicates a problem
is_on(coordinator_data) ==
    LET health_data == Get(coordinator_data, "health", [k \in {} |-> 0])
        status_code == Get(health_data, "status_code", 0)
        status == Get(health_data, "status", <<"u", "n", "k", "n", "o", "w", "n">>)
    IN  status_code # 200 \/ Lower(status) # ok

\* available
available == last_update_success

\* the coordinator data a sensor may be asked about
SensorData ==
    StatsObjects \cup {SetItem(s, "health", h) : s \in {StatsOf(0, 0), StatsOf(0, MaxCount)},
                                                  h \in HealthObjects}

InitSensor ==
    /\ data \in {<<d>> : d \in SensorData}
    /\ last_update_success = TRUE
    /\ calls = <<>>
    /\ cause = <<>>
    /\ tick = <<>>
    /\ good = <<>>
    /\ is_on_out = <<>>

IsOn ==
    /\ data # <<>>
    /\ is_on_out' = <<is_on(data[1])>>
    /\ UNCHANGED <<flowVars, pollVars, clientVars>>

-----------------------------------------------------------------------------
(* The client's fetch: KarakeepClient.async_get_stats with its request *)

Min(a, b) == IF a <= b THEN a ELSE b

Dots == <<".", ".", ".">>
Bearer(s) == <<"B", "e", "a", "r", "e", "r", " ">> \o s

\* as MaskToken, but the suffix is everything after the first five characters
MaskTokenRest(token) ==
    SubSeq(token, 1, Min(5, Len(token))) \o Dots \o SubSeq(token, 6, Len(token))

\* token[:5] + "..." + (token[-5:] if len(token) > 10 else "")
MaskToken(token) ==
    SubSeq(token, 1, Min(5, Len(token))) \o Dots
        \o (IF Len(token) > 10 THEN SubSeq(token, Len(token) - 4, Len(token)) ELSE <<>>)

\* as Fetch, but a failed GET is tried once more
FetchRetrying(token, answers) ==
    IF answers[1].kind = "raise"
    THEN [result |-> async_get_stats(answers[2]), gets |-> 2,
          logged |-> Bearer(MaskToken(token)), header |-> Bearer(token)]
    ELSE [result |-> async_get_stats(answers[1]), gets |-> 1,
          logged |-> Bearer(MaskToken(token)), header |-> Bearer(token)]

\* async_get_stats with what it logs and sends: the masked header is logged,
\* session.get is called once with the real header, and its answer decides
Fetch(token, answers) ==
    [result |-> async_get_stats(answers[1]), gets |-> 1,
     logged |-> Bearer(MaskToken(token)), header |-> Bearer(token)]

\* characters that differ by position, none of them in "Bearer " or "..."
TokenAlphabet == <<"0", "1", "2", "3", "4", "5", "6", "7", "8", "9",
                   "u", "v", "w", "x", "y", "z">>
ClientTokens == {SubSeq(TokenAlphabet, 1, n) : n \in 0..MaxTokenLen}

\* the answers to a first GET and to a second, were there one
Answers == Outcomes \X {Ret(StatsOf(0, 0)), Exc("ClientResponseError", 401)}

NoClient == client = [token |-> <<>>, answers |-> <<>>] /\ fetched = <<>>

InitClient ==
    /\ client \in [token : ClientTokens, answers : Answers]
    /\ fetched = <<>>

AsyncGetStats ==
    /\ fetched = <<>>
    /\ fetched' = <<Fetch(client.token, client.answers)>>
    /\ UNCHANGED <<flowVars, pollVars, is_on_out, client>>

-----------------------------------------------------------------------------
(* Specifications *)

\* the config flow, any number of steps
Init == InitFlow /\ InitPoll /\ is_on_out = <<>> /\ NoClient
Next == AsyncStepUser \/ AsyncStepReconfigure
Spec == Init /\ [][Next]_vars

\* the config flow, one step over every input
NextStep == OneOptionsInit \/ OneStepUser \/ OneStepReconfigure
InitOneStep == InitStep /\ InitPoll /\ is_on_out = <<>> /\ NoClient
SpecStep == InitOneStep /\ [][NextStep]_vars

\* the polling coordinator
NextPoll == Tick
SpecPoll == Init /\ [][NextPoll]_vars

\* the health sensor over every coordinator data
NextSensor == IsOn
InitRead == InitFlow /\ InitSensor /\ NoClient

\* the client over every token length and every answer of the transport
NextClient == AsyncGetStats
InitFetch == InitFlow /\ InitPoll /\ is_on_out = <<>> /\ InitClient
SpecClient == InitFetch /\ [][NextClient]_vars
SpecSensor == InitRead /\ [][NextSensor]_vars

-----------------------------------------------------------------------------
(* Properties of the polling coordinator (SpecPoll) *)

LastTick == tick[1]
TickFailed == LastTick.stats.kind = "raise" \/ LastTick.health.kind = "raise"

\* dict d is stats object s with health object h under "health", nothing else
IsMerge(d, s, h) ==
    /\ DOMAIN d = DOMAIN s \cup {"health"}
    /\ \A k \in DOMAIN s : d[k] = s[k]
    /\ d["health"] = h

\* C1: the published snapshot is absent until a tick succeeds, and from then
\* on it is the complete merge of the most recent tick whose stats fetch and
\* health fetch both succeeded; a failed tick leaves it as it was and marks
\* the state unavailable, so no snapshot without the health key is published.
C1_PublishedIsLastGood ==
    /\ good = <<>> => data = <<>>
    /\ good # <<>> => data # <<>> /\ IsMerge(data[1], good[1].stats, good[1].health)
    /\ data # <<>> => "health" \in DOMAIN data[1]
    /\ tick # <<>> /\ TickFailed => ~available

\* a tick whose health fetch failed after an earlier tick had published
C1_Witness ==
    /\ tick # <<>>
    /\ LastTick.stats.kind = "return"
    /\ LastTick.health.kind = "raise"
    /\ good # <<>>
    /\ LastTick.stats.body # good[1].stats
    /\ data # <<>>
    /\ ~available

\* C2: every tick issues the stats fetch first and the health fetch, if at
\* all, second; a tick whose stats fetch fails never issues the health fetch
\* and fails with the stats fetch's error as its cause.
C2_StatsBeforeHealth ==
    tick # <<>> =>
        /\ calls \in {<<"async_get_stats">>, <<"async_get_stats", "async_get_health">>}
        /\ LastTick.stats.kind = "raise" =>
               /\ calls = <<"async_get_stats">>
               /\ ~available
               /\ cause = <<LastTick.stats>>

\* a tick whose stats fetch failed while the health endpoint would have answered
C2_Witness ==
    /\ tick # <<>>
    /\ LastTick.stats.kind = "raise"
    /\ LastTick.health.kind = "return"
    /\ calls = <<"async_get_stats">>

\* C3: when both endpoints answer, the refresh succeeds and what it returns
\* holds every key of the stats object with its value, plus "health" mapped
\* to the health object, and no other key.
C3_MergeKeepsEveryKey ==
    tick # <<>> /\ ~TickFailed =>
        /\ available
        /\ data # <<>>
        /\ IsMerge(data[1], LastTick.stats.body, LastTick.health.body)

\* a successful tick whose stats object carries a key no sensor reads
C3_Witness ==
    /\ tick # <<>>
    /\ ~TickFailed
    /\ "numAssets" \in DOMAIN LastTick.stats.body
    /\ data # <<>>
    /\ "numAssets" \in DOMAIN data[1]

-----------------------------------------------------------------------------
(* Properties of the health sensor (SpecSensor) *)

\* the spellings of "ok" that differ only in case
OkSpellings == {<<"o", "k">>, <<"O", "k">>, <<"o", "K">>, <<"O", "K">>}

\* the coordinator data reports status code 200 and a status text that is
\* "ok" up to case; a missing entry or field reports neither
ReportsOk(d) ==
    /\ "health" \in DOMAIN d
    /\ "status_code" \in DOMAIN d["health"]
    /\ d["health"]["status_code"] = 200
    /\ "status" \in DOMAIN d["health"]
    /\ d["health"]["status"] \in OkSpellings

\* C4: for every health snapshot, with or without its fields and with or
\* without the health entry, is_on returns a boolean, and returns false
\* exactly when the status code is 200 and the status text is "ok" up to case.
C4_IsOnIffNotOk ==
    is_on_out # <<>> =>
        /\ is_on_out[1] \in BOOLEAN
        /\ is_on_out[1] = FALSE <=> ReportsOk(data[1])

\* is_on answered "no problem" for a status text spelled in capitals
C4_Witness ==
    /\ is_on_out = <<FALSE>>
    /\ data[1]["health"]["status"] = <<"O", "K">>

-----------------------------------------------------------------------------
(* Properties of one config flow step (SpecStep) *)

Probed == probe # <<>>
ProbeError == probe[1].outcome
ProbeFailedWith(base) ==
    Probed /\ ProbeError.kind = "raise" /\ IsSubclass(ProbeError.cls, base)

FormWithError(code) == result.type = "form" /\ result.error = code

\* the last step was a setup or reconfigure submission that the schema
\* admitted and that reached _async_handle_config_step
Handled ==
    /\ req.step_id \in {"user", "reconfigure"}
    /\ req.user_input.given
    /\ result # InvalidData
    /\ req.step_id = "reconfigure" => Len(prev_entries) > 0

UserFacingCodes == {"invalid_url_format", "invalid_auth", "invalid_api_path", "api_error",
                    "cannot_connect", "timeout_error", "client_error", "invalid_url",
                    "unknown"}

\* C5: whatever the probe fails with, the step returns a form carrying a
\* user-facing error code, and no exception leaves the step.
C5_EveryFailureBecomesACode ==
    Probed /\ ProbeError.kind = "raise" =>
        result.type = "form" /\ result.error \in UserFacingCodes

\* C6: an HTTP error of the probe is reported as invalid_auth for 401, as
\* invalid_api_path for 404 and as api_error for any other status; a
\* connection failure (DNS, refused, TLS) is reported as cannot_connect.
C6_HttpAndConnectionCodes ==
    /\ ProbeFailedWith("ClientResponseError") =>
           /\ ProbeError.status = 401 => FormWithError("invalid_auth")
           /\ ProbeError.status = 404 => FormWithError("invalid_api_path")
           /\ ProbeError.status \notin {401, 404} => FormWithError("api_error")
    /\ ProbeFailedWith("ClientConnectorError") => FormWithError("cannot_connect")

\* a reconfigure step whose probe was answered 404
C6_Witness ==
    /\ ProbeFailedWith("ClientResponseError")
    /\ ProbeError.status = 404
    /\ req.step_id = "reconfigure"
    /\ FormWithError("invalid_api_path")

\* C7: a probe that times out re-renders the form with timeout_error.
C7_TimeoutBecomesTimeoutError ==
    ProbeFailedWith("TimeoutError") => FormWithError("timeout_error")

\* C8: a probe the transport rejects as InvalidURL is reported as invalid_url.
C8_InvalidUrlBecomesInvalidUrl ==
    ProbeFailedWith("InvalidURL") => FormWithError("invalid_url")

\* the URL as typed has, once trimmed, a scheme other than http and https, or
\* no host
SchemeOrHostBad(raw) ==
    LET parsed == urlparse(Strip(raw))
    IN  parsed.scheme \notin {http, https} \/ Hostname(parsed.netloc) = <<>>

\* C9: a raw URL whose scheme is not http or https, or whose host is empty,
\* is rejected with invalid_url_format; no probe is made and no config entry
\* is created or updated.
C9_BadUrlRejectedUnprobed ==
    Handled /\ SchemeOrHostBad(req.user_input.url) =>
        /\ FormWithError("invalid_url_format")
        /\ ~Probed
        /\ entries = prev_entries

-----------------------------------------------------------------------------
(* Properties of the config flow over several steps (Spec) *)

\* the step's URL is held by an entry other than the one it reconfigures
Conflicts ==
    \E i \in 1..Len(prev_entries) :
        /\ req.step_id = "reconfigure" => i # 1
        /\ prev_entries[i].data.url = probe[1].url

\* C10: a step whose probe succeeded and whose normalized URL is that of an
\* entry other than the one being reconfigured aborts with already_configured
\* whatever the token; and no two config entries ever hold the same URL.
C10_NoDuplicateUrl ==
    /\ Probed /\ ProbeError.kind = "return" /\ Conflicts =>
           result = Abort("already_configured") /\ entries = prev_entries
    /\ \A i, j \in 1..Len(entries) :
           i # j => entries[i].data.url # entries[j].data.url

\* a reconfigure of the first entry to the second entry's URL, under a token
\* the second entry does not hold, was turned down
C10_Witness ==
    /\ req.step_id = "reconfigure"
    /\ Len(entries) = 2
    /\ Probed
    /\ probe[1].url = entries[2].data.url
    /\ probe[1].token # entries[2].data.token
    /\ result = Abort("already_configured")

-----------------------------------------------------------------------------
(* Properties of what a step stores (SpecStep) *)

\* the step created an entry or updated the first one
Stored ==
    /\ req.step_id \in {"user", "reconfigure"}
    /\ \/ result.type = "create_entry"
       \/ result = Abort("reconfigure_successful")

\* the entry the step wrote
Written == IF result.type = "create_entry" THEN entries[Len(entries)] ELSE entries[1]

\* stored is raw without the whitespace around it and without the slashes
\* that end it: raw is spaces, stored, slashes, spaces
IsTrimmedUnslashed(stored, raw) ==
    \E i \in 1..Len(raw), j \in 0..Len(raw), k \in 1..Len(raw) :
        /\ i <= j + 1 /\ j <= k
        /\ stored = SubSeq(raw, i, j)
        /\ \A p \in 1..(i - 1) : raw[p] \in Whitespace
        /\ raw[i] \notin Whitespace
        /\ \A p \in (j + 1)..k : raw[p] = "/"
        /\ raw[k] \notin Whitespace
        /\ \A p \in (k + 1)..Len(raw) : raw[p] \in Whitespace

EndsInSlash(s) == s # <<>> /\ s[Len(s)] = "/"

\* C11: the base URL a step stores, which is also the one its client probed,
\* never ends in "/": it is the typed URL without surrounding whitespace and
\* without its trailing slashes, nothing else added or removed; a URL typed
\* without trailing slash is stored as typed (trimmed), and normalizing the
\* stored URL again changes nothing.
C11_StoredUrlNormalized ==
    Stored =>
        /\ ~EndsInSlash(Written.data.url)
        /\ IsTrimmedUnslashed(Written.data.url, req.user_input.url)
        /\ probe[1].url = Written.data.url
        /\ Normalize(Written.data.url) = Written.data.url
        /\ ClientUrl(Written.data.url) = Written.data.url

\* an entry created from a URL typed with two trailing slashes
C11_Witness ==
    /\ Stored
    /\ req.user_input.url = UrlASlashes
    /\ Written.data.url = UrlA

\* the value converts to an integer of at least 30: it is an integer or a
\* number with a fraction whose integer part is at least 30, or text that
\* spells such an integer
ConvertsToAtLeast30(value) ==
    /\ value \notin {Gibberish}
    /\ value.whole >= 30

IsIntAtLeast30(value) == value.kind = "int" /\ value.whole >= 30

Rejected ==
    /\ \/ result = InvalidData
       \/ req.step_id = "reconfigure" /\ result = Abort("no_existing_config")
    /\ ~Probed
    /\ entries = prev_entries

StoredIntervalsValid ==
    \A i \in 1..Len(entries) :
        /\ entries[i].data.scan_interval \in Int
        /\ entries[i].data.scan_interval >= 30
        /\ "scan_interval" \in DOMAIN entries[i].options =>
               /\ entries[i].options["scan_interval"] \in Int
               /\ entries[i].options["scan_interval"] >= 30

\* C12 as claimed: a polling interval that is not an integer of at least 30
\* is rejected before any probe, and every stored interval is an integer of
\* at least 30.
C12_NonIntegerRejected ==
    /\ req.user_input.given /\ ~IsIntAtLeast30(req.user_input.scan_interval) => Rejected
    /\ StoredIntervalsValid

\* C12 as amended: a polling interval that does not convert to an integer of
\* at least 30 is rejected before any probe, and every interval stored in an
\* entry's data or options by setup, reconfigure or the options flow is an
\* integer of at least 30.
C12_BelowFloorRejected ==
    /\ req.user_input.given /\ ~ConvertsToAtLeast30(req.user_input.scan_interval) => Rejected
    /\ StoredIntervalsValid

\* a setup submission with interval 29 and a well-formed URL was turned away
C12_Witness ==
    /\ req.step_id = "user"
    /\ req.user_input.given
    /\ req.user_input.scan_interval = IntValue(29)
    /\ req.user_input.url = UrlA
    /\ Rejected

-----------------------------------------------------------------------------
(* Properties of the form a failed step shows again (SpecStep) *)

\* the values the submission carried, as typed or as the step trimmed and
\* the schema coerced them
Entered ==
    [url : {req.user_input.url, Strip(req.user_input.url)},
     token : {req.user_input.token, Strip(req.user_input.token)},
     scan_interval : {Coerced(req.user_input.scan_interval)}]

\* C13: a setup or reconfigure submission that failed its probe or its URL
\* validation is answered with the same step's form, the error code under
\* "base", and the URL, token and interval just entered as the form's
\* defaults.
C13_FormKeepsEnteredValues ==
    Handled /\ result.type = "form" /\ result.error # None =>
        /\ result.step_id = req.step_id
        /\ result.error \in UserFacingCodes
        /\ result.defaults \in Entered

-----------------------------------------------------------------------------
(* Properties of the client's fetch (SpecClient) *)

Fetched == fetched # <<>>
Logged == fetched[1].logged
Elems(s) == {s[p] : p \in 1..Len(s)}

\* C14: a fetch makes exactly one GET and never a second; a body the
\* transport returns is returned, and whatever the GET fails with (HTTP
\* status, connection, unparseable body, timeout, other client error, any
\* other exception) is raised to the caller as that same exception, never
\* turned into a value or into another error.
C14_OneGetFailureReraised ==
    Fetched =>
        /\ fetched[1].gets = 1
        /\ fetched[1].result = client.answers[1]
        /\ client.answers[1].kind = "raise" =>
               /\ fetched[1].result.kind = "raise"
               /\ fetched[1].result.cls = client.answers[1].cls
               /\ fetched[1].result.status = client.answers[1].status

\* a GET whose body could not be parsed, where a second GET would have been
\* answered: the parse failure reached the caller
C14_Witness ==
    /\ Fetched
    /\ client.answers[1] \in BodyFailures
    /\ client.answers[2].kind = "return"
    /\ fetched[1].result = client.answers[1]

\* C15: the header written to the log is "Bearer ", at most the token's
\* first 5 characters, "...", and the token's last 5 characters when the
\* token is longer than 10 and nothing otherwise; no character of the token
\* outside its first 5 and last 5 positions is logged, and the header sent
\* carries the whole token.
C15_MaskShowsOnlyEnds ==
    Fetched =>
        LET token == client.token
            n == Len(token)
            head == Min(5, n)
            tail == IF n > 10 THEN 5 ELSE 0
        IN  /\ Len(Logged) = 7 + head + 3 + tail
            /\ SubSeq(Logged, 1, 7) = Bearer(<<>>)
            /\ SubSeq(Logged, 8, 7 + head) = SubSeq(token, 1, head)
            /\ SubSeq(Logged, 8 + head, 10 + head) = <<".", ".", ".">>
            /\ SubSeq(Logged, 11 + head, Len(Logged)) = SubSeq(token, n - tail + 1, n)
            /\ \A p \in 6..(n - 5) : token[p] \notin Elems(Logged)
            /\ n <= 10 => \A p \in 6..n : token[p] \notin Elems(Logged)
            /\ fetched[1].header = Bearer(token)

\* a token of 12 characters: the log shows 5, "..." and 5, the header all 12
C15_Witness ==
    /\ Fetched
    /\ Len(client.token) = 12
    /\ Logged = Bearer(<<"0", "1", "2", "3", "4", ".", ".", ".", "7", "8", "9", "u", "v">>)
    /\ Len(fetched[1].header) = 19

-----------------------------------------------------------------------------
(* Properties of what a step changes (SpecStep) *)

Reconfigured == req.step_id = "reconfigure" /\ result = Abort("reconfigure_successful")

\* C16: a reconfigure never changes the number of entries; when it succeeds
\* the first entry keeps its id, its data become the normalized URL, the
\* token and the interval of the submission, its options keep every key but
\* scan_interval, which becomes the new interval, and the other entries are
\* untouched; a reconfigure to the entry's own URL succeeds; and without any
\* entry the reconfigure aborts with no_existing_config, unprobed.
C16_ReconfigureReplacesInPlace ==
    /\ req.step_id = "reconfigure" => Len(entries) = Len(prev_entries)
    /\ Reconfigured =>
           LET interval == Coerced(req.user_input.scan_interval)
               old == prev_entries[1].options
               new == entries[1].options
           IN  /\ entries[1].entry_id = prev_entries[1].entry_id
               /\ entries[1].data = [url |-> Normalize(Strip(req.user_input.url)),
                                     token |-> Strip(req.user_input.token),
                                     scan_interval |-> interval]
               /\ DOMAIN new = DOMAIN old \cup {"scan_interval"}
               /\ new["scan_interval"] = interval
               /\ \A k \in DOMAIN old \ {"scan_interval"} : new[k] = old[k]
               /\ \A i \in 2..Len(entries) : entries[i] = prev_entries[i]
    /\ /\ req.step_id = "reconfigure"
       /\ Len(prev_entries) > 0
       /\ Probed
       /\ ProbeError.kind = "return"
       /\ probe[1].url = prev_entries[1].data.url
       => Reconfigured
    /\ req.step_id = "reconfigure" /\ Len(prev_entries) = 0 =>
           result = Abort("no_existing_config") /\ ~Probed /\ entries = prev_entries
    /\ MergeOptions([theme |-> 1, scan_interval |-> 30], 60) = [theme |-> 1, scan_interval |-> 60]

\* the first of two entries, its interval set before by the options flow,
\* reconfigured under its own URL with another token and another interval
C16_Witness ==
    /\ Reconfigured
    /\ Len(entries) = 2
    /\ probe[1].url = prev_entries[1].data.url
    /\ entries[1].data.token # prev_entries[1].data.token
    /\ "scan_interval" \in DOMAIN prev_entries[1].options
    /\ entries[1].options["scan_interval"] # prev_entries[1].options["scan_interval"]

\* the step ended in an error code, in already_configured or in
\* no_existing_config
Failed ==
    \/ result.type = "form" /\ result.error # None
    \/ result = Abort("already_configured")
    \/ result = Abort("no_existing_config")

\* C17: a setup or reconfigure step that ends in an error code, in
\* already_configured or in no_existing_config leaves every entry, its data
\* and its options as they were; a probe is made only for a URL that passed
\* validation, and an entry is created or updated only when the probe
\* succeeded and the duplicate check found no conflict.
C17_FailedAttemptChangesNothing ==
    req.step_id \in {"user", "reconfigure"} =>
        /\ Failed => entries = prev_entries
        /\ Probed => ~UrlFormatBad(urlparse(Strip(req.user_input.url)))
        /\ entries # prev_entries =>
               /\ Stored
               /\ Probed
               /\ ProbeError.kind = "return"
               /\ ~Conflicts

\* a setup step to the URL of an entry: probed, then turned down, both
\* entries as before
C17_Witness ==
    /\ req.step_id = "user"
    /\ Probed
    /\ ProbeError.kind = "return"
    /\ Conflicts
    /\ result = Abort("already_configured")
    /\ Len(prev_entries) = 2
    /\ entries = prev_entries

====
